---- MODULE Spec2Model ----
(***************************************************************************)
(* A model of illumemail's server.js (the current revision, lines 185-623):*)
(* the shared Puppeteer browser and its launch / SIGINT lifecycle, the     *)
(* per-request pipeline of processEmailContent behind /convert and         *)
(* /convert-api, and the pure helpers escapeHtml, generateEmailHtml and    *)
(* sanitizeHeaderValue.                                                    *)
(*                                                                         *)
(* Strings are sequences of UTF-16 code units (integers), as the regular   *)
(* expressions of the source (no u flag) see them.  A value that may be    *)
(* undefined is a record [present, s].                                     *)
(***************************************************************************)
EXTENDS Integers, Sequences, FiniteSets, TLC

VARIABLES
    \* ---- process and shared browser (server.js 285-299, 611-623)
    proc,          \* "running" | "exited"
    listening,     \* app.listen has bound the port
    launch,        \* puppeteer.launch(): "pending" | "done" | "failed"
    browser,       \* the module variable `browser`: "undefined" | "session"
    session,       \* the browser process: "none" | "running" | "closing" | "closed"
    sig,           \* one SIGINT handler run per delivered signal
    launchCalls,   \* calls of puppeteer.launch()
    closeCalls,    \* calls of browser.close()
    exitBy,        \* what ended the process: "none" | "sigint" | "launchFailure"
    \* ---- configuration read at startup (server.js 273-277)
    maxHeight,     \* MAX_SCREENSHOT_HEIGHT
    offline,       \* OFFLINE_MODE
    \* ---- requests (server.js 380-604)
    req,           \* per request: its position and locals
    \* ---- sanitizeHeaderValue under test (server.js 368-377)
    sanIn, sanOut, sanOut2, sanPc,
    \* ---- generateEmailHtml under test (server.js 301-366)
    htmlIn, htmlDoc, htmlPc

procVars == <<proc, listening, launch, browser, session, sig, launchCalls,
              closeCalls, exitBy, maxHeight, offline, req>>
sanVars  == <<sanIn, sanOut, sanOut2, sanPc>>
htmlVars == <<htmlIn, htmlDoc, htmlPc>>
vars     == <<procVars, sanVars, htmlVars>>

-----------------------------------------------------------------------------
(* Optional values and strings *)

Absent == [present |-> FALSE, s |-> <<>>]

Some(str) == [present |-> TRUE, s |-> str]

\* JavaScript truthiness of an optional string: undefined, null and '' are falsy
Truthy(v) == v.present /\ v.s # <<>>

\* A variant that leaves a missing value as it is
ValueOrEmpty(v, dflt) == v.s

\* v || dflt
OrDefault(v, dflt) == IF Truthy(v) THEN v.s ELSE dflt

\* The code units of the literals the source uses
StrUnknown          == <<85, 110, 107, 110, 111, 119, 110>>
StrUnknownSender    == StrUnknown \o <<32, 83, 101, 110, 100, 101, 114>>
StrUnknownRecipient == StrUnknown \o <<32, 82, 101, 99, 105, 112, 105, 101, 110, 116>>
StrNoSubject        == <<78, 111, 32, 83, 117, 98, 106, 101, 99, 116>>
StrNoContent        == <<78, 111, 32, 99, 111, 110, 116, 101, 110, 116, 32,
                         97, 118, 97, 105, 108, 97, 98, 108, 101>>
StrEllipsis         == <<46, 46, 46>>

-----------------------------------------------------------------------------
(* sanitizeHeaderValue, server.js 368-377 *)

\* The truncation length of sanitizeHeaderValue
MaxHeaderLen == 255

\* [\r\n\x00-\x1F\x7F]
IsControl(c) == c \in 0..31 \/ c = 127

\* [\x20-\x7E]
IsPrintable(c) == c \in 32..126

\* What String.prototype.trim removes: WhiteSpace and LineTerminator
IsJsWhitespace(c) ==
    c \in {9, 10, 11, 12, 13, 32, 160, 5760, 8232, 8233, 8239, 8287, 12288, 65279}
    \/ c \in 8192..8202

\* value.replace(/[\r\n\x00-\x1F\x7F]+/g, ' '): each maximal run becomes one space
ReplaceControlRuns(str) ==
    LET marked == [i \in 1..Len(str) |->
                     [c    |-> IF IsControl(str[i]) THEN 32 ELSE str[i],
                      drop |-> IsControl(str[i]) /\ i > 1 /\ IsControl(str[i-1])]]
        keep(m) == ~m.drop
        kept   == SelectSeq(marked, keep)
    IN  [i \in 1..Len(kept) |-> kept[i].c]

\* String.prototype.trim: white space is taken off both ends
RECURSIVE TrimStart(_)
TrimStart(str) ==
    IF str # <<>> /\ IsJsWhitespace(Head(str)) THEN TrimStart(Tail(str)) ELSE str

RECURSIVE TrimEnd(_)
TrimEnd(str) ==
    IF str # <<>> /\ IsJsWhitespace(str[Len(str)])
    THEN TrimEnd(SubSeq(str, 1, Len(str) - 1))
    ELSE str

Trim(str) == TrimEnd(TrimStart(str))

\* A variant that strips only what lies above Latin-1: /[^\x20-\xFF]/g
StripAboveLatin1(str) ==
    LET latin1(c) == c \in 32..255 IN SelectSeq(str, latin1)

\* value.replace(/[^\x20-\x7E]/g, '')
StripNonPrintable(str) == SelectSeq(str, IsPrintable)

\* if (value.length > 255) value = value.substring(0, 255) + '...'
Truncate(str) ==
    IF Len(str) > MaxHeaderLen
    THEN SubSeq(str, 1, MaxHeaderLen) \o StrEllipsis
    ELSE str

sanitizeHeaderValue(value) ==
    IF ~Truthy(value) THEN <<>>
    ELSE Truncate(StripNonPrintable(Trim(ReplaceControlRuns(value.s))))

-----------------------------------------------------------------------------
(* escapeHtml and generateEmailHtml, server.js 301-366 *)

EntAmp  == <<38, 97, 109, 112, 59>>
EntLt   == <<38, 108, 116, 59>>
EntGt   == <<38, 103, 116, 59>>
EntQuot == <<38, 113, 117, 111, 116, 59>>
EntApos == <<38, 35, 48, 51, 57, 59>>

\* str.replace(/c/g, by)
RECURSIVE ReplaceAll(_, _, _)
ReplaceAll(str, c, by) ==
    IF str = <<>> THEN <<>>
    ELSE (IF Head(str) = c THEN by ELSE <<Head(str)>>) \o ReplaceAll(Tail(str), c, by)

\* The five replacements in the order of the source: & first
escapeHtml(unsafe) ==
    ReplaceAll(ReplaceAll(ReplaceAll(ReplaceAll(ReplaceAll(unsafe,
        38, EntAmp), 60, EntLt), 62, EntGt), 34, EntQuot), 39, EntApos)


\* What generateEmailHtml embeds for one header: parsedEmail.from?.text etc.
HeaderText(h) == IF h.present THEN Some(h.text) ELSE Absent

\* parsedEmail.from?.value[0]?.address
HeaderAddress(h) == IF h.present THEN h.address ELSE Absent

\* The document, as the sequence of its interpolated parts in template order;
\* the static markup between them (server.js 319-354, 359-365) is left out.
generateEmailHtml(parsedEmail) ==
    LET messageId   == escapeHtml(OrDefault(parsedEmail.messageId, StrUnknown))
        from        == OrDefault(HeaderText(parsedEmail.from), StrUnknownSender)
        to          == OrDefault(HeaderText(parsedEmail.to), StrUnknownRecipient)
        subject     == OrDefault(parsedEmail.subject, StrNoSubject)
        htmlContent == IF Truthy(parsedEmail.html) THEN parsedEmail.html.s
                       ELSE <<60, 112, 114, 101, 62>>
                            \o OrDefault(parsedEmail.text, StrNoContent)
                            \o <<60, 47, 112, 114, 101, 62>>
    IN  << [part |-> "messageId",   text |-> messageId],
           [part |-> "from",        text |-> from],
           [part |-> "fromAddress",
            text |-> OrDefault(HeaderAddress(parsedEmail.from), StrUnknown)],
           [part |-> "to",          text |-> to],
           [part |-> "toAddress",
            text |-> OrDefault(HeaderAddress(parsedEmail.to), StrUnknown)],
           [part |-> "subject",     text |-> subject],
           [part |-> "content",     text |-> htmlContent] >>

-----------------------------------------------------------------------------
(* Configuration, server.js 273-277 *)

NaN == [nan |-> TRUE, v |-> 0]

Num(n) == [nan |-> FALSE, v |-> n]

\* a > b on JavaScript numbers: false when either side is NaN
Greater(a, b) == ~a.nan /\ ~b.nan /\ a.v > b.v

IsDigit(c) == c \in 48..57

\* The value of the longest prefix of digits of str, most significant first
RECURSIVE DigitsValue(_, _)
DigitsValue(str, acc) ==
    IF str = <<>> \/ ~IsDigit(Head(str)) THEN acc
    ELSE DigitsValue(Tail(str), 10 * acc + (Head(str) - 48))

\* parseInt(str, 10): leading white space skipped, an optional sign, then the
\* digits up to the first character that is none; NaN when there is no digit
ParseInt10(str) ==
    LET body   == TrimStart(str)
        signed == body # <<>> /\ Head(body) \in {43, 45}
        digits == IF signed THEN Tail(body) ELSE body
    IN  IF digits = <<>> \/ ~IsDigit(Head(digits)) THEN NaN
        ELSE IF signed /\ Head(body) = 45 THEN Num(0 - DigitsValue(digits, 0))
        ELSE Num(DigitsValue(digits, 0))

\* '15000'
StrDefaultMaxHeight == <<49, 53, 48, 48, 48>>

\* parseInt(process.env.MAX_SCREENSHOT_HEIGHT || '15000', 10)
ReadMaxScreenshotHeight(env) == ParseInt10(OrDefault(env, StrDefaultMaxHeight))

\* The settings of MAX_SCREENSHOT_HEIGHT the server is started with:
\* unset, '500' and 'abc'
MaxHeightSettings == { Absent, Some(<<53, 48, 48>>), Some(<<97, 98, 99>>) }

\* Number.prototype.toString of an integer
RECURSIVE NatToString(_)
NatToString(n) ==
    IF n < 10 THEN <<48 + n>> ELSE NatToString(n \div 10) \o <<48 + (n % 10)>>

IntToString(n) == IF n < 0 THEN <<45>> \o NatToString(0 - n) ELSE NatToString(n)


-----------------------------------------------------------------------------
(* Bounds and the inputs tried *)

\* Concurrent conversion requests
NumReq == 2

\* SIGINT deliveries
MaxSignals == 2

Req == 1..NumReq

Signals == 1..MaxSignals

\* The viewport width of setViewport and the cap on the measured width
ViewportWidth == 1024

\* document.documentElement.scrollWidth / scrollHeight of the rendered pages
ScrollWidths == {800, 1300}

ScrollHeights == {100, 500, 501}

\* Resource requests a page issues while its document loads
MaxResources == 1

\* 'data:,a' and 'http://a/b', what request.url() returns for them
UrlData == <<100, 97, 116, 97, 58, 44, 97>>

UrlRemote == <<104, 116, 116, 112, 58, 47, 47, 97, 47, 98>>

ResourceUrls == {UrlData, UrlRemote}

\* 'data:'
StrDataScheme == <<100, 97, 116, 97, 58>>

NoHeader == [present |-> FALSE, text |-> <<>>, address |-> Absent]

Header(text, address) == [present |-> TRUE, text |-> text, address |-> address]

\* What simpleParser makes of the submitted bytes: a rejection, or a parsed mail
MalformedEmail ==
    [ok |-> FALSE,
     parsed |-> [messageId |-> Absent, from |-> NoHeader, to |-> NoHeader,
                 subject |-> Absent, html |-> Absent, text |-> Absent]]

\* headers only, neither text nor html
EmptyEmail ==
    [ok |-> TRUE,
     parsed |-> [messageId |-> Some(<<60, 49, 62>>), from |-> NoHeader,
                 to |-> NoHeader, subject |-> Some(<<97>>),
                 html |-> Absent, text |-> Absent]]

\* a text body and no headers
TextEmail ==
    [ok |-> TRUE,
     parsed |-> [messageId |-> Absent, from |-> NoHeader, to |-> NoHeader,
                 subject |-> Absent, html |-> Absent, text |-> Some(<<97>>)]]

\* an html body, with subject 'e-acute space a', sender 'a <a@b>'
HtmlEmail ==
    [ok |-> TRUE,
     parsed |-> [messageId |-> Some(<<60, 49, 62>>),
                 from |-> Header(<<97, 32, 60, 97, 64, 98, 62>>, Some(<<97, 64, 98>>)),
                 to |-> Header(<<98>>, Absent),
                 subject |-> Some(<<233, 32, 97>>),
                 html |-> Some(<<60, 98, 62>>), text |-> Absent]]

\* a mail that parses to nothing at all, as the empty stream does
BlankEmail == [MalformedEmail EXCEPT !.ok = TRUE]

\* The byte streams submitted.  A stream on which simpleParser rejects:
MalformedBytes == <<0, 0>>

\* 'Message-ID: <1>', 'Subject: a' and nothing after the headers, lines ended
\* by CR LF
EmptyBytes ==
    <<77, 101, 115, 115, 97, 103, 101, 45, 73, 68, 58, 32, 60, 49, 62, 13,
      10, 83, 117, 98, 106, 101, 99, 116, 58, 32, 97, 13, 10>>

\* an empty header section and the body 'a'
TextBytes == <<13, 10, 97>>

\* Message-ID, From, To, the encoded Subject, 'Content-Type: text/html' and
\* the body '<b>'
HtmlBytes ==
    <<77, 101, 115, 115, 97, 103, 101, 45, 73, 68, 58, 32, 60, 49, 62, 13,
      10, 70, 114, 111, 109, 58, 32, 97, 32, 60, 97, 64, 98, 62, 13, 10, 84,
      111, 58, 32, 98, 13, 10, 83, 117, 98, 106, 101, 99, 116, 58, 32, 61,
      63, 117, 116, 102, 45, 56, 63, 81, 63, 61, 67, 51, 61, 65, 57, 95, 97,
      63, 61, 13, 10, 67, 111, 110, 116, 101, 110, 116, 45, 84, 121, 112,
      101, 58, 32, 116, 101, 120, 116, 47, 104, 116, 109, 108, 13, 10, 13,
      10, 60, 98, 62>>

\* What simpleParser (mailparser) makes of a byte stream: the four mails above
\* for their streams, a mail without headers or body for any other
SimpleParser(bytes) ==
    CASE bytes = MalformedBytes -> MalformedEmail
      [] bytes = EmptyBytes -> EmptyEmail
      [] bytes = TextBytes -> TextEmail
      [] bytes = HtmlBytes -> HtmlEmail
      [] OTHER -> BlankEmail

\* The streams submitted to both entry points
Samples ==
    {[sample |-> "malformed", bytes |-> MalformedBytes],
     [sample |-> "empty", bytes |-> EmptyBytes],
     [sample |-> "html", bytes |-> HtmlBytes]}

\* The character of the base64 alphabet for a sextet
Base64Char(v) ==
    IF v < 26 THEN 65 + v
    ELSE IF v < 52 THEN 71 + v
    ELSE IF v < 62 THEN v - 4
    ELSE IF v = 62 THEN 43 ELSE 47

\* The base64 encoding of a byte stream, as the client makes it (RFC 4648,
\* padded with '=')
Base64Encode(bytes) ==
    LET n == Len(bytes)
        B(k) == IF k <= n THEN bytes[k] ELSE 0
    IN  [i \in 1..(4 * ((n + 2) \div 3)) |->
           LET base == 3 * ((i - 1) \div 4)
               pos  == (i - 1) % 4
           IN  IF pos = 0 THEN Base64Char(B(base + 1) \div 4)
               ELSE IF pos = 1
               THEN Base64Char((B(base + 1) % 4) * 16 + (B(base + 2) \div 16))
               ELSE IF pos = 2
               THEN IF base + 2 > n THEN 61
                    ELSE Base64Char((B(base + 2) % 16) * 4 + (B(base + 3) \div 64))
               ELSE IF base + 3 > n THEN 61
                    ELSE Base64Char(B(base + 3) % 64)]

\* The width at which the `base64` tool of the README breaks its lines
Base64LineLength == 76

\* The encoding with a line feed after every 76 characters
WrapLines(str) ==
    LET n == Len(str)
        w == Base64LineLength + 1
    IN  IF n = 0 THEN str
        ELSE [i \in 1..(n + ((n - 1) \div Base64LineLength)) |->
                IF i % w = 0 THEN 10 ELSE str[i - (i \div w)]]

\* The sextet of a character for Buffer.from(..., 'base64'), which also takes
\* the URL-safe '-' and '_'; 64 for a character that is none
Unbase64(c) ==
    IF c \in 65..90 THEN c - 65
    ELSE IF c \in 97..122 THEN c - 71
    ELSE IF c \in 48..57 THEN c + 4
    ELSE IF c \in {43, 45} THEN 62
    ELSE IF c \in {47, 95} THEN 63
    ELSE 64

IsBase64Char(c) == Unbase64(c) < 64

\* The sextets Buffer.from reads: characters outside the alphabet are skipped,
\* and the first '=' ends the input
Sextets(str) ==
    LET pads == {i \in 1..Len(str) : str[i] = 61}
        end  == IF pads = {} THEN Len(str)
                ELSE (CHOOSE i \in pads : \A k \in pads : i <= k) - 1
        legal == SelectSeq(SubSeq(str, 1, end), IsBase64Char)
    IN  [i \in 1..Len(legal) |-> Unbase64(legal[i])]

\* The bytes of the sextets: three for four, two for a last three, one for a
\* last two
SextetsToBytes(v) ==
    [k \in 1..((Len(v) * 6) \div 8) |->
       LET base == 4 * ((k - 1) \div 3)
           pos  == (k - 1) % 3
       IN  IF pos = 0 THEN v[base + 1] * 4 + (v[base + 2] \div 16)
           ELSE IF pos = 1 THEN (v[base + 2] % 16) * 16 + (v[base + 3] \div 4)
           ELSE (v[base + 3] % 4) * 64 + v[base + 4]]

\* A variant of the decoding that drops a last group of fewer than four
\* characters
DecodeWholeGroups(str) ==
    LET v == Sextets(str)
    IN  SextetsToBytes(SubSeq(v, 1, 4 * (Len(v) \div 4)))

\* Buffer.from(eml_content, 'base64') for a string, server.js 584: it never
\* throws
Base64Decode(str) == SextetsToBytes(Sextets(str))

IsLineBreak(c) == c \in {10, 13}

NotLineBreak(c) == ~IsLineBreak(c)

StripLineBreaks(str) == SelectSeq(str, NotLineBreak)

\* Whether a string is a base64 encoding (RFC 4648 with padding, line breaks
\* allowed): whole groups of four characters of the alphabet, the last group
\* ending in at most two '='
IsBase64(str) ==
    LET t == StripLineBreaks(str)
        n == Len(t)
        pad == IF n >= 2 /\ t[n] = 61 /\ t[n - 1] = 61 THEN 2
               ELSE IF n >= 1 /\ t[n] = 61 THEN 1 ELSE 0
    IN  /\ n % 4 = 0
        /\ \A i \in 1..(n - pad) :
              t[i] \in (65..90) \cup (97..122) \cup (48..57) \cup {43, 47}

\* The mail of TextBytes put into eml_content as it is, without encoding
StrNotEncoded == TextBytes

\* The limit of multer on the uploaded file, server.js 270-283, with
\* MAX_FILE_SIZE_MB unset
MaxFileSizeMb == 20

MaxFileSizeBytes == MaxFileSizeMb * 1024 * 1024

\* The limit of express.json on the request body, server.js 267
JsonLimitBytes == 50 * 1024 * 1024

\* The size of a mail with a large attachment, over the one limit and, encoded,
\* under the other
LargeMailBytes == 25 * 1024 * 1024

Base64Length(n) == 4 * ((n + 2) \div 3)

\* A request to /convert with the bytes as its file
FileInput(m) ==
    [endpoint |-> "convert",
     payload |-> IF Len(m.bytes) > MaxFileSizeBytes THEN "oversize" ELSE "given",
     sample |-> m.sample, email |-> SimpleParser(m.bytes)]

\* A request to /convert-api with the string as its eml_content
ApiInput(sample, content) ==
    [endpoint |-> "convert-api",
     payload |-> IF IsBase64(content) THEN "given" ELSE "undecodable",
     sample |-> sample, email |-> SimpleParser(Base64Decode(content))]

\* The two requests with a mail of LargeMailBytes bytes, a text body and an
\* attachment; its bytes are not spelled out
LargeInputs ==
    {[endpoint |-> e,
      payload |-> IF e = "convert" /\ LargeMailBytes > MaxFileSizeBytes
                  THEN "oversize"
                  ELSE IF e = "convert-api"
                          /\ Base64Length(LargeMailBytes) > JsonLimitBytes
                  THEN "oversize" ELSE "given",
      sample |-> "large", email |-> TextEmail] : e \in {"convert", "convert-api"}}

\* What a request carries: the entry point; whether req.file / eml_content is
\* there ("missing"), is not a string ("nonString"), is over the limit of the
\* entry point ("oversize"), is a string that is no base64 ("undecodable") or
\* is as it should be ("given"); the byte stream it was made from, and the mail
\* that simpleParser makes of what reaches it
RequestInputs ==
    [endpoint : {"convert", "convert-api"}, payload : {"missing"},
     sample : {"none"}, email : {MalformedEmail}]
    \cup [endpoint : {"convert-api"}, payload : {"nonString"}, sample : {"none"},
          email : {MalformedEmail}]
    \cup {FileInput(m) : m \in Samples}
    \cup {ApiInput(m.sample, Base64Encode(m.bytes)) : m \in Samples}
    \cup {ApiInput(m.sample, WrapLines(Base64Encode(m.bytes))) : m \in Samples}
    \cup {ApiInput("none", StrNotEncoded)}
    \cup LargeInputs

NoDims == [width |-> 0, height |-> 0]

NoShot == [kind |-> "none"]

\* A request: pc is the await it is suspended at; scroll, dims, shot and
\* heightTruncated are locals of processEmailContent; actualHeight,
\* capturedHeight and pageHeight are what it has logged (server.js 466-470,
\* 490-495, 504-511), <<>> when it has not.  gate is whether the page has
\* request interception on with the listener of 432-441, fetches the resource
\* requests of the load in progress, blocked whether the listener has logged
\* a blocked request (438), pageId the page that the local `page` refers to
\* (0 for none)
IdleRequest ==
    [pc |-> "idle", endpoint |-> "convert", payload |-> "missing",
     sample |-> "none", email |-> MalformedEmail, file |-> "none", page |-> "none",
     closeCalled |-> FALSE, newPageOn |-> "none", gate |-> FALSE,
     scroll |-> NoDims, dims |-> NoDims, shot |-> NoShot,
     heightTruncated |-> FALSE, actualHeight |-> <<>>, capturedHeight |-> <<>>,
     pageHeight |-> <<>>, responses |-> <<>>, fetches |-> <<>>,
     blocked |-> FALSE, pageId |-> 0]


-----------------------------------------------------------------------------
(* Responses *)

StrTrue      == <<116, 114, 117, 101>>
StrFalse     == <<102, 97, 108, 115, 101>>
StrImageJpeg == <<105, 109, 97, 103, 101, 47, 106, 112, 101, 103>>

\* res.setHeader(name, value)
SetHeader(headers, name, value) ==
    [n \in DOMAIN headers \cup {name} |-> IF n = name THEN value ELSE headers[n]]

\* res.status(400).send({ error: message })
ErrorResponse(message) ==
    [status |-> 400, headers |-> <<>>, body |-> [kind |-> "error", message |-> message]]

\* res.status(400).send('No file uploaded.')
TextResponse(message) ==
    [status |-> 400, headers |-> <<>>, body |-> [kind |-> "text", message |-> message]]

\* The answer of Express to an error no handler takes, as the MulterError of
\* upload.single('eml_file') (server.js 539) is
DefaultErrorResponse(message) ==
    [status |-> 500, headers |-> <<>>, body |-> [kind |-> "html", message |-> message]]

\* A variant that compares with >= instead of >
ReachesMaximum(height, max) == ~max.nan /\ height >= max.v

\* if (dimensions.height > MAX_SCREENSHOT_HEIGHT), server.js 465
ExceedsMaximum(height, max) == Greater(Num(height), max)

\* The argument of page.screenshot, server.js 473-485
ScreenshotArgs(dims, max) ==
    IF ExceedsMaximum(dims.height, max)
    THEN [kind |-> "clip", type |-> "jpeg", x |-> 0, y |-> 0,
          width |-> dims.width, height |-> max]
    ELSE [kind |-> "fullPage", type |-> "jpeg"]

\* A variant that sets the two height headers whether truncated or not
HeadersWithHeights(parsedEmail, heightTruncated, dims, max) ==
    [n \in {"X-Email-Subject", "X-Email-From", "X-Message-ID",
            "X-Screenshot-Height-Truncated", "X-Actual-Page-Height",
            "X-Captured-Height", "Content-Type"} |->
        CASE n = "X-Email-Subject" -> sanitizeHeaderValue(parsedEmail.subject)
          [] n = "X-Email-From" -> sanitizeHeaderValue(HeaderText(parsedEmail.from))
          [] n = "X-Message-ID" ->
                sanitizeHeaderValue(Some(OrDefault(parsedEmail.messageId, StrUnknown)))
          [] n = "X-Screenshot-Height-Truncated" ->
                IF heightTruncated THEN StrTrue ELSE StrFalse
          [] n = "X-Actual-Page-Height" -> IntToString(dims.height)
          [] n = "X-Captured-Height" -> IntToString(max.v)
          [] OTHER -> StrImageJpeg]

\* The values that the mails submitted bring to sanitizeHeaderValue
HeaderValues ==
    UNION {{e.subject, HeaderText(e.from), Some(OrDefault(e.messageId, StrUnknown))} :
              e \in {i.email.parsed : i \in RequestInputs}}

\* sanitizeHeaderValue of each of them, evaluated once
Sanitized == [v \in HeaderValues |-> sanitizeHeaderValue(v)]

\* The headers of the success response, server.js 513-524
SuccessHeaders(parsedEmail, heightTruncated, dims, max) ==
    LET messageId == OrDefault(parsedEmail.messageId, StrUnknown)
        h1 == SetHeader(<<>>, "X-Email-Subject", Sanitized[parsedEmail.subject])
        h2 == SetHeader(h1, "X-Email-From", Sanitized[HeaderText(parsedEmail.from)])
        h3 == SetHeader(h2, "X-Message-ID", Sanitized[Some(messageId)])
        h4 == SetHeader(h3, "X-Screenshot-Height-Truncated",
                        IF heightTruncated THEN StrTrue ELSE StrFalse)
        h5 == IF heightTruncated
              THEN SetHeader(SetHeader(h4, "X-Actual-Page-Height",
                                       IntToString(dims.height)),
                             "X-Captured-Height", IntToString(max.v))
              ELSE h4
    IN  SetHeader(h5, "Content-Type", StrImageJpeg)

SuccessResponse(parsedEmail, heightTruncated, dims, max) ==
    [status |-> 200, headers |-> SuccessHeaders(parsedEmail, heightTruncated, dims, max),
     body |-> [kind |-> "jpeg"]]

-----------------------------------------------------------------------------
(* The request pipeline, server.js 380-604 *)

\* The timeout of page.setContent, in milliseconds
LoadTimeoutMs == 60000

\* page.setViewport({ width: 1024, height: 0 }), server.js 427
ViewportCall == [op |-> "setViewport", width |-> ViewportWidth, height |-> 0]

\* A variant of the load that waits for the network to be idle in either mode
ContentCallIdle(off) ==
    [op |-> "setContent", waitUntil |-> "networkidle0", timeout |-> LoadTimeoutMs]

\* page.setContent(emailHtml, { waitUntil: OFFLINE_MODE ? 'load' :
\* 'networkidle0', timeout: 60000 }), server.js 445
ContentCall(off) ==
    [op |-> "setContent", waitUntil |-> IF off THEN "load" ELSE "networkidle0",
     timeout |-> LoadTimeoutMs]

\* The call a request is suspended at, with its arguments (those of the
\* screenshot are in the request's shot)
PendingCall(rq, off) ==
    CASE rq.pc = "setViewport" -> ViewportCall
      [] rq.pc = "setRequestInterception" ->
            [op |-> "setRequestInterception", value |-> TRUE]
      [] rq.pc = "setContent" -> ContentCall(off)
      [] OTHER -> [op |-> rq.pc]

\* A variant of the route of /convert without the unlink
AlwaysDone(rq) == "done"

\* Where the route handler goes once processEmailContent has returned:
\* /convert unlinks the upload in its finally, /convert-api is finished
AfterProcess(rq) == IF rq.endpoint = "convert" THEN "unlink" ELSE "done"

\* processEmailContent returns: its locals are gone (the page object with them,
\* whatever its state)
Return(rq) ==
    [rq EXCEPT !.pc = AfterProcess(rq), !.newPageOn = "none", !.scroll = NoDims,
               !.dims = NoDims, !.shot = NoShot, !.heightTruncated = FALSE,
               !.actualHeight = <<>>, !.capturedHeight = <<>>, !.gate = FALSE,
               !.fetches = <<>>, !.blocked = FALSE, !.pageId = 0]

\* A variant of the catch that sends nothing
CatchSilently(rq, message) == Return(rq)

\* A variant of the catch after which the route answers the error once more
CatchTwice(rq, message) ==
    Return([rq EXCEPT !.responses =
                @ \o <<ErrorResponse(message), ErrorResponse(message)>>])

\* The catch of processEmailContent, server.js 526-535
Catch(rq, message) ==
    Return([rq EXCEPT !.responses = Append(@, ErrorResponse(message))])

\* What a rejected page operation throws
Rejection(op) ==
    IF session = "running" THEN op \o " failed" ELSE "Target closed"

\* Whether a page operation may reject: load and capture may at any time
\* (timeout, render failure), every operation once the browser is closing
MayReject(op) == op \in {"setContent", "screenshot"} \/ session # "running"

\* A variant without the check for a body
AnyBody(parsedEmail) == TRUE

\* if (!parsedEmail.text && !parsedEmail.html) throw, server.js 404
IsRenderable(parsedEmail) == Truthy(parsedEmail.text) \/ Truthy(parsedEmail.html)

\* A page operation can only succeed on a browser that still runs
CanSucceed == session \in {"running", "closing"}

Running == proc = "running"

\* The route handlers up to their first await, server.js 539-557 and 567-595
Arrive(r) ==
    /\ Running /\ listening
    /\ req[r].pc = "idle"
    /\ \E in \in RequestInputs :
         LET rq == [req[r] EXCEPT !.endpoint = in.endpoint, !.payload = in.payload,
                                  !.sample = in.sample, !.email = in.email]
         IN  req' = [req EXCEPT ![r] =
               IF in.payload = "missing"
               THEN [rq EXCEPT !.pc = "done",
                               !.responses = Append(@,
                                  IF in.endpoint = "convert"
                                  THEN TextResponse("No file uploaded.")
                                  ELSE ErrorResponse("No .eml content provided."))]
               ELSE IF in.payload = "nonString"
               THEN \* Buffer.from throws a TypeError: the catch of /convert-api
                    [rq EXCEPT !.pc = "done",
                               !.responses = Append(@,
                                  ErrorResponse("Invalid base64-encoded content."))]
               ELSE IF in.payload = "oversize" /\ in.endpoint = "convert"
               THEN \* multer turns the upload down and the handler is not run
                    [rq EXCEPT !.pc = "done",
                               !.responses = Append(@,
                                  DefaultErrorResponse("File too large"))]
               ELSE [rq EXCEPT !.pc = "parsing",
                               !.file = IF in.endpoint = "convert" THEN "temp"
                                        ELSE "none"]]
    /\ UNCHANGED <<proc, listening, launch, browser, session, sig, launchCalls,
                   closeCalls, exitBy, maxHeight, offline>>
    /\ UNCHANGED <<sanVars, htmlVars>>

\* simpleParser has settled: server.js 390-424, up to the call of newPage
Parsed(r) ==
    /\ Running
    /\ req[r].pc = "parsing"
    /\ LET rq == req[r]
       IN  req' = [req EXCEPT ![r] =
             IF ~rq.email.ok THEN Catch(rq, "simpleParser rejected")
             ELSE IF ~IsRenderable(rq.email.parsed)
             THEN Catch(rq, "The provided content is not a valid .eml file.")
             ELSE IF browser = "undefined"
             THEN Catch(rq, "TypeError: browser is undefined")
             ELSE [rq EXCEPT !.pc = "newPage", !.newPageOn = session]]
    /\ UNCHANGED <<proc, listening, launch, browser, session, sig, launchCalls,
                   closeCalls, exitBy, maxHeight, offline>>
    /\ UNCHANGED <<sanVars, htmlVars>>

\* A variant in which every request is given the page opened first
FirstPage(reqs) == 1

\* The page that browser.newPage() resolves to: one more than were opened
NewPage(reqs) == 1 + Cardinality({q \in Req : reqs[q].page # "none"})

\* browser.newPage() has settled; on success setViewport is called, 424-427
NewPageReturn(r) ==
    /\ Running
    /\ req[r].pc = "newPage"
    /\ \E ok \in BOOLEAN :
         /\ ok => CanSucceed
         /\ ~ok => MayReject("newPage")
         /\ req' = [req EXCEPT ![r] =
              IF ok THEN [@ EXCEPT !.page = "open", !.newPageOn = "none",
                                  !.pageId = NewPage(req),
                                  !.pc = "setViewport"]
              ELSE Catch(@, Rejection("newPage"))]
    /\ UNCHANGED <<proc, listening, launch, browser, session, sig, launchCalls,
                   closeCalls, exitBy, maxHeight, offline>>
    /\ UNCHANGED <<sanVars, htmlVars>>

\* page.setViewport has settled; then the offline gate or setContent, 427-445
ViewportReturn(r) ==
    /\ Running
    /\ req[r].pc = "setViewport"
    /\ \E ok \in BOOLEAN :
         /\ ok => CanSucceed
         /\ ~ok => MayReject("setViewport")
         /\ req' = [req EXCEPT ![r] =
              IF ok
              THEN [@ EXCEPT !.pc = IF offline THEN "setRequestInterception"
                                    ELSE "setContent"]
              ELSE Catch(@, Rejection("setViewport"))]
    /\ UNCHANGED <<proc, listening, launch, browser, session, sig, launchCalls,
                   closeCalls, exitBy, maxHeight, offline>>
    /\ UNCHANGED <<sanVars, htmlVars>>

\* page.setRequestInterception(true) has settled; the request listener is
\* installed and setContent is called, 431-445
InterceptionReturn(r) ==
    /\ Running
    /\ req[r].pc = "setRequestInterception"
    /\ \E ok \in BOOLEAN :
         /\ ok => CanSucceed
         /\ ~ok => MayReject("setRequestInterception")
         /\ req' = [req EXCEPT ![r] =
              IF ok THEN [@ EXCEPT !.gate = TRUE, !.pc = "setContent"]
              ELSE Catch(@, Rejection("setRequestInterception"))]
    /\ UNCHANGED <<proc, listening, launch, browser, session, sig, launchCalls,
                   closeCalls, exitBy, maxHeight, offline>>
    /\ UNCHANGED <<sanVars, htmlVars>>

\* url.startsWith(prefix)
StartsWith(url, prefix) ==
    /\ Len(url) >= Len(prefix)
    /\ SubSeq(url, 1, Len(prefix)) = prefix

\* A variant of the listener that lets every request through
ContinueAll(url) == <<"continue">>

\* The listener of page.on('request'), server.js 432-441: the calls it makes
\* on the intercepted request
OnRequest(url) ==
    IF StartsWith(url, StrDataScheme) THEN <<"continue">> ELSE <<"abort">>

\* A resource request of a page: with interception on it is held until the
\* listener resolves it and goes to the network only when continued; without
\* interception nothing holds it
Fetch(gate, url) ==
    LET calls == IF gate THEN OnRequest(url) ELSE <<>>
    IN  [url |-> url, intercepted |-> gate, resolutions |-> calls,
         fetched |-> IF gate THEN calls # <<>> /\ calls[1] = "continue" ELSE TRUE]

\* The document being loaded by setContent requests a resource, 430-445
ResourceRequest(r) ==
    /\ Running
    /\ req[r].pc = "setContent"
    /\ CanSucceed
    /\ Len(req[r].fetches) < MaxResources
    /\ \E url \in ResourceUrls :
         LET f == Fetch(req[r].gate, url)
         IN  req' = [req EXCEPT ![r] =
               [@ EXCEPT !.fetches = Append(@, f),
                         !.blocked = @ \/ (f.intercepted /\ ~f.fetched)]]
    /\ UNCHANGED <<proc, listening, launch, browser, session, sig, launchCalls,
                   closeCalls, exitBy, maxHeight, offline>>
    /\ UNCHANGED <<sanVars, htmlVars>>

\* A variant of the load without a timeout or a failure: it settles only when
\* the document has loaded
ContentReturnIfLoaded(r) ==
    /\ Running
    /\ req[r].pc = "setContent"
    /\ CanSucceed
    /\ req' = [req EXCEPT ![r] = [@ EXCEPT !.pc = "evaluate", !.fetches = <<>>]]
    /\ UNCHANGED <<proc, listening, launch, browser, session, sig, launchCalls,
                   closeCalls, exitBy, maxHeight, offline>>
    /\ UNCHANGED <<sanVars, htmlVars>>

\* page.setContent has settled: loaded, timed out after 60 s, or failed, 445-448
ContentReturn(r) ==
    /\ Running
    /\ req[r].pc = "setContent"
    /\ \E outcome \in {"loaded", "timeout", "failed"} :
         /\ outcome = "loaded" => CanSucceed
         /\ req' = [req EXCEPT ![r] =
              IF outcome = "loaded"
              THEN [@ EXCEPT !.pc = "evaluate", !.fetches = <<>>]
              ELSE IF outcome = "timeout"
              THEN Catch(@, "Navigation timeout of 60000 ms exceeded")
              ELSE Catch(@, Rejection("setContent"))]
    /\ UNCHANGED <<proc, listening, launch, browser, session, sig, launchCalls,
                   closeCalls, exitBy, maxHeight, offline>>
    /\ UNCHANGED <<sanVars, htmlVars>>

Min(a, b) == IF a < b THEN a ELSE b

\* page.evaluate has settled with the dimensions; an excess height is logged
\* and page.screenshot is called with the clip or with fullPage, 448-485
EvaluateReturn(r) ==
    /\ Running
    /\ req[r].pc = "evaluate"
    /\ \/ /\ CanSucceed
          /\ \E w \in ScrollWidths, h \in ScrollHeights :
               LET dims == [width |-> Min(w, ViewportWidth), height |-> h]
               IN  req' = [req EXCEPT ![r] =
                     [@ EXCEPT !.scroll = [width |-> w, height |-> h],
                               !.dims = dims,
                               !.actualHeight =
                                   IF ExceedsMaximum(dims.height, maxHeight)
                                   THEN <<dims.height>> ELSE <<>>,
                               !.shot = ScreenshotArgs(dims, maxHeight),
                               !.pc = "screenshot"]]
       \/ /\ MayReject("evaluate")
          /\ req' = [req EXCEPT ![r] = Catch(@, Rejection("evaluate"))]
    /\ UNCHANGED <<proc, listening, launch, browser, session, sig, launchCalls,
                   closeCalls, exitBy, maxHeight, offline>>
    /\ UNCHANGED <<sanVars, htmlVars>>

\* page.screenshot has settled; heightTruncated is set in the clip branch and
\* page.close() is called, 473-497
ScreenshotReturn(r) ==
    /\ Running
    /\ req[r].pc = "screenshot"
    /\ \E ok \in BOOLEAN :
         /\ ok => CanSucceed
         /\ ~ok => MayReject("screenshot")
         /\ req' = [req EXCEPT ![r] =
              IF ok
              THEN LET truncated == ExceedsMaximum(req[r].dims.height, maxHeight)
                   IN  [@ EXCEPT !.heightTruncated = truncated,
                                 !.capturedHeight = IF truncated THEN <<maxHeight.v>>
                                                    ELSE <<req[r].dims.height>>,
                                 !.closeCalled = TRUE,
                                 !.pc = "pageClose"]
              ELSE Catch(@, Rejection("screenshot"))]
    /\ UNCHANGED <<proc, listening, launch, browser, session, sig, launchCalls,
                   closeCalls, exitBy, maxHeight, offline>>
    /\ UNCHANGED <<sanVars, htmlVars>>

\* A variant that closes the shared browser where the page is to be closed
BrowserCloseReturn(r) ==
    /\ Running
    /\ req[r].pc = "pageClose"
    /\ \E ok \in BOOLEAN :
         /\ ok => CanSucceed
         /\ ~ok => MayReject("page.close")
         /\ req' = [req EXCEPT ![r] =
              IF ok
              THEN Return([@ EXCEPT !.page = "closed",
                                    !.pageHeight = <<req[r].dims.height>>,
                                    !.responses = Append(@,
                                       SuccessResponse(req[r].email.parsed,
                                                       req[r].heightTruncated,
                                                       req[r].dims, maxHeight))])
              ELSE Catch(@, Rejection("page.close"))]
    /\ session' = "closed"
    /\ UNCHANGED <<proc, listening, launch, browser, sig, launchCalls,
                   closeCalls, exitBy, maxHeight, offline>>
    /\ UNCHANGED <<sanVars, htmlVars>>

\* page.close() has settled; the headers are set and the JPEG is sent, 497-525
PageCloseReturn(r) ==
    /\ Running
    /\ req[r].pc = "pageClose"
    /\ \E ok \in BOOLEAN :
         /\ ok => CanSucceed
         /\ ~ok => MayReject("page.close")
         /\ req' = [req EXCEPT ![r] =
              IF ok
              THEN Return([@ EXCEPT !.page = "closed",
                                    !.pageHeight = <<req[r].dims.height>>,
                                    !.responses = Append(@,
                                       SuccessResponse(req[r].email.parsed,
                                                       req[r].heightTruncated,
                                                       req[r].dims, maxHeight))])
              ELSE Catch(@, Rejection("page.close"))]
    /\ UNCHANGED <<proc, listening, launch, browser, session, sig, launchCalls,
                   closeCalls, exitBy, maxHeight, offline>>
    /\ UNCHANGED <<sanVars, htmlVars>>

\* The finally of /convert: fs.promises.unlink has settled, 558-563
Unlinked(r) ==
    /\ Running
    /\ req[r].pc = "unlink"
    /\ req' = [req EXCEPT ![r] = [@ EXCEPT !.file = "deleted", !.pc = "done"]]
    /\ UNCHANGED <<proc, listening, launch, browser, session, sig, launchCalls,
                   closeCalls, exitBy, maxHeight, offline>>
    /\ UNCHANGED <<sanVars, htmlVars>>


-----------------------------------------------------------------------------
(* The process: listen, browser launch, SIGINT; server.js 285-299, 611-623 *)

\* app.listen has bound the port: requests are accepted from here on,
\* whatever the state of the launch
Listen ==
    /\ Running /\ ~listening
    /\ listening' = TRUE
    /\ UNCHANGED <<proc, launch, browser, session, sig, launchCalls, closeCalls,
                   exitBy, maxHeight, offline, req>>
    /\ UNCHANGED <<sanVars, htmlVars>>

\* puppeteer.launch() resolves and `browser` is assigned, 290
LaunchDone ==
    /\ Running /\ launch = "pending"
    /\ launch' = "done"
    /\ browser' = "session"
    /\ session' = "running"
    /\ UNCHANGED <<proc, listening, sig, launchCalls, closeCalls, exitBy,
                   maxHeight, offline, req>>
    /\ UNCHANGED <<sanVars, htmlVars>>

\* puppeteer.launch() rejects: nothing handles the rejection of the async
\* function of 287-294, and Node 22 (Dockerfile) ends the process on it
LaunchFail ==
    /\ Running /\ launch = "pending"
    /\ launch' = "failed"
    /\ proc' = "exited"
    /\ exitBy' = "launchFailure"
    /\ UNCHANGED <<listening, browser, session, sig, launchCalls, closeCalls,
                   maxHeight, offline, req>>
    /\ UNCHANGED <<sanVars, htmlVars>>

\* A SIGINT is delivered and its handler runs to its await, 296-298:
\* with a browser assigned browser.close() is called, otherwise the process
\* exits at once
SigInt(s) ==
    /\ Running
    /\ sig[s] = "none"
    /\ \A t \in Signals : t < s => sig[t] # "none"
    /\ IF browser # "undefined"
       THEN /\ closeCalls' = closeCalls + 1
            /\ session' = IF session = "running" THEN "closing" ELSE session
            /\ sig' = [sig EXCEPT ![s] = "awaitClose"]
            /\ UNCHANGED <<proc, exitBy>>
       ELSE /\ proc' = "exited"
            /\ exitBy' = "sigint"
            /\ sig' = [sig EXCEPT ![s] = "done"]
            /\ UNCHANGED <<closeCalls, session>>
    /\ UNCHANGED <<listening, launch, browser, launchCalls, maxHeight, offline, req>>
    /\ UNCHANGED <<sanVars, htmlVars>>

\* The browser process that browser.close() shuts down is gone; what is still
\* pending on its pages can only fail from here on
BrowserGone ==
    /\ Running
    /\ session = "closing"
    /\ session' = "closed"
    /\ UNCHANGED <<proc, listening, launch, browser, sig, launchCalls, closeCalls,
                   exitBy, maxHeight, offline, req>>
    /\ UNCHANGED <<sanVars, htmlVars>>

\* await browser.close() returns in a handler, which calls process.exit(), 297-298
CloseReturn(s) ==
    /\ Running
    /\ sig[s] = "awaitClose"
    /\ session = "closed"
    /\ sig' = [sig EXCEPT ![s] = "done"]
    /\ proc' = "exited"
    /\ exitBy' = "sigint"
    /\ UNCHANGED <<listening, launch, browser, session, launchCalls, closeCalls,
                   maxHeight, offline, req>>
    /\ UNCHANGED <<sanVars, htmlVars>>

-----------------------------------------------------------------------------
(* The specification of the server *)

SanIdle  == /\ sanIn = Absent /\ sanOut = <<>> /\ sanOut2 = <<>> /\ sanPc = "off"

HtmlIdle == /\ htmlIn = MalformedEmail.parsed /\ htmlDoc = <<>> /\ htmlPc = "off"

\* The state once server.js has been evaluated: the configuration is read,
\* puppeteer.launch() is pending, the SIGINT handler is registered
Init ==
    /\ proc = "running"
    /\ listening = FALSE
    /\ launch = "pending"
    /\ browser = "undefined"
    /\ session = "none"
    /\ sig = [s \in Signals |-> "none"]
    /\ launchCalls = 1
    /\ closeCalls = 0
    /\ exitBy = "none"
    /\ maxHeight \in {ReadMaxScreenshotHeight(e) : e \in MaxHeightSettings}
    /\ offline \in BOOLEAN
    /\ req = [r \in Req |-> IdleRequest]
    /\ SanIdle
    /\ HtmlIdle

Next ==
    \/ Listen
    \/ LaunchDone
    \/ LaunchFail
    \/ BrowserGone
    \/ \E s \in Signals : SigInt(s)
    \/ \E s \in Signals : CloseReturn(s)
    \/ \E r \in Req : Arrive(r)
    \/ \E r \in Req : Parsed(r)
    \/ \E r \in Req : NewPageReturn(r)
    \/ \E r \in Req : ViewportReturn(r)
    \/ \E r \in Req : InterceptionReturn(r)
    \/ \E r \in Req : ResourceRequest(r)
    \/ \E r \in Req : ContentReturn(r)
    \/ \E r \in Req : EvaluateReturn(r)
    \/ \E r \in Req : ScreenshotReturn(r)
    \/ \E r \in Req : PageCloseReturn(r)
    \/ \E r \in Req : Unlinked(r)

Spec == Init /\ [][Next]_vars

\* The step with which the operation a request awaits settles
Settle(r) ==
    \/ Parsed(r)
    \/ NewPageReturn(r)
    \/ ViewportReturn(r)
    \/ InterceptionReturn(r)
    \/ ContentReturn(r)
    \/ EvaluateReturn(r)
    \/ ScreenshotReturn(r)
    \/ PageCloseReturn(r)
    \/ Unlinked(r)

\* What the event loop and the awaited operations guarantee a request: the
\* parser and the unlink settle, and so does every operation on the browser
\* and its pages, by returning or by failing (the load within its timeout)
RequestFairness(r) == WF_vars(Settle(r))

\* '500'
StrMaxHeight500 == <<53, 48, 48>>

\* The server started with MAX_SCREENSHOT_HEIGHT=500, in either mode
LiveInit == Init /\ maxHeight = ReadMaxScreenshotHeight(Some(StrMaxHeight500))

\* The server with every awaited operation settling
SpecLive == LiveInit /\ [][Next]_vars /\ \A r \in Req : RequestFairness(r)


-----------------------------------------------------------------------------
(* sanitizeHeaderValue on its own: every input below, sanitized once and then
   once more *)

\* The longest prefix and suffix put around the padding of an input
MaxPrefix == 2

MaxSuffix == 1

\* LF, space, 'a', DEL, U+0085 (a C1 control), U+00A0 (no-break space), U+00E9
SanChars == {10, 32, 97, 127, 133, 160, 233}

SeqsUpTo(S, n) == UNION {[1..k -> S] : k \in 0..n}

\* k times 'b'
Padding(k) == [i \in 1..k |-> 98]

\* Paddings that, with a prefix and a suffix, put the length far below, just
\* below, at and above the truncation length
PadLens == {0, MaxHeaderLen - 1, MaxHeaderLen}

SanInputs ==
    {Absent} \cup
    {Some(pre \o Padding(k) \o suf) :
        pre \in SeqsUpTo(SanChars, MaxPrefix), k \in PadLens,
        suf \in SeqsUpTo(SanChars, MaxSuffix)}

\* The server at rest, for the specifications of the pure functions
ProcIdle ==
    /\ proc = "running" /\ listening = FALSE /\ launch = "pending"
    /\ browser = "undefined" /\ session = "none"
    /\ sig = [s \in Signals |-> "none"]
    /\ launchCalls = 1 /\ closeCalls = 0 /\ exitBy = "none"
    /\ maxHeight = ReadMaxScreenshotHeight(Absent) /\ offline = FALSE
    /\ req = [r \in Req |-> IdleRequest]

SanInit ==
    /\ ProcIdle /\ HtmlIdle
    /\ sanIn \in SanInputs
    /\ sanOut = <<>> /\ sanOut2 = <<>> /\ sanPc = "start"

SanitizeOnce ==
    /\ sanPc = "start"
    /\ sanOut' = sanitizeHeaderValue(sanIn)
    /\ sanPc' = "once"
    /\ UNCHANGED <<sanIn, sanOut2, procVars, htmlVars>>

SanitizeAgain ==
    /\ sanPc = "once"
    /\ sanOut2' = sanitizeHeaderValue(Some(sanOut))
    /\ sanPc' = "twice"
    /\ UNCHANGED <<sanIn, sanOut, procVars, htmlVars>>

SanNext == SanitizeOnce \/ SanitizeAgain

SpecSan == SanInit /\ [][SanNext]_vars

-----------------------------------------------------------------------------
(* generateEmailHtml on its own: a header value placed in any subset of the
   header fields of a parsed mail *)

\* The longest header value tried
MaxHeaderChars == 2

\* & < > " ' and 'a'
HtmlChars == {38, 60, 62, 34, 39, 97}

HeaderFields == {"messageId", "fromText", "fromAddress", "toText", "toAddress",
                 "subject"}

\* The parsed mail that carries value in the fields of `at` (a from or to header
\* is there when its text or its address is) and has the body `body`
MailWith(value, at, body) ==
    LET opt(f) == IF f \in at THEN Some(value) ELSE Absent
        hdr(textField, addressField) ==
            IF textField \in at \/ addressField \in at
            THEN Header(opt(textField).s, opt(addressField))
            ELSE NoHeader
    IN  [messageId |-> opt("messageId"),
         from      |-> hdr("fromText", "fromAddress"),
         to        |-> hdr("toText", "toAddress"),
         subject   |-> opt("subject"),
         html      |-> IF body = "html" THEN Some(<<60, 98, 62>>) ELSE Absent,
         text      |-> IF body = "text" THEN Some(<<97, 60>>) ELSE Absent]

HtmlInputs ==
    {MailWith(v, at, body) :
        v \in SeqsUpTo(HtmlChars, MaxHeaderChars), at \in SUBSET HeaderFields,
        body \in {"html", "text"}}

HtmlInit ==
    /\ ProcIdle /\ SanIdle
    /\ htmlIn \in HtmlInputs
    /\ htmlDoc = <<>> /\ htmlPc = "start"

Generate ==
    /\ htmlPc = "start"
    /\ htmlDoc' = generateEmailHtml(htmlIn)
    /\ htmlPc' = "done"
    /\ UNCHANGED <<htmlIn, procVars, sanVars>>

HtmlNext == Generate

SpecHtml == HtmlInit /\ [][HtmlNext]_vars


-----------------------------------------------------------------------------
(* The claims *)

Finished(r) == req[r].pc \in {"idle", "done"}

\* The awaits at which a request has an operation pending on its page
PageOpPcs == {"setViewport", "setRequestInterception", "setContent", "evaluate",
              "screenshot", "pageClose"}

PagesAcquired == Cardinality({r \in Req : req[r].page # "none"})

PageCloseCalls == Cardinality({r \in Req : req[r].closeCalled})

\* C1: once every request has finished, page.close() has been called as many
\* times as pages were acquired from browser.newPage() (stated for the runs in
\* which no termination signal has closed the browser under the requests)
C1_EveryPageClosed ==
    ((\A r \in Req : Finished(r)) /\ session = "running")
        => PageCloseCalls = PagesAcquired

\* C2: browser.newPage() is only ever called on a session that is launched and
\* whose shutdown has not begun
C2_NewPageOnlyOnRunningSession ==
    \A r \in Req : req[r].pc = "newPage" => req[r].newPageOn = "running"

\* C3: browser.close() is called only when no conversion task is in flight,
\* and no task has a page operation pending on a browser that is closed
C3_CloseOnlyWhenNoTaskInFlight ==
    [][/\ closeCalls' > closeCalls => \A r \in Req : Finished(r)
       /\ \A r \in Req : req'[r].pc \in PageOpPcs => session' # "closed"]_vars

\* C4: when the process exits on a termination signal, the browser has been
\* launched exactly once and closed exactly once
C4_LaunchedOnceClosedOnce ==
    (proc = "exited" /\ exitBy = "sigint") => (launchCalls = 1 /\ closeCalls = 1)

\* C5: with measured height h and maximum m, once the screenshot is taken:
\* h > m gives the clip (0, 0, min(scrollWidth, 1024), m), heightTruncated,
\* actualHeight h and capturedHeight m; h <= m gives the full page, no
\* truncation and capturedHeight h
C5_TruncationDecision ==
    \A r \in Req :
        req[r].pc = "pageClose" =>
            LET h == req[r].scroll.height
                w == req[r].scroll.width
            IN  /\ (~maxHeight.nan /\ h > maxHeight.v) =>
                     /\ req[r].shot = [kind |-> "clip", type |-> "jpeg", x |-> 0,
                                       y |-> 0,
                                       width |-> IF w < ViewportWidth THEN w
                                                 ELSE ViewportWidth,
                                       height |-> maxHeight]
                     /\ req[r].heightTruncated
                     /\ req[r].actualHeight = <<h>>
                     /\ req[r].capturedHeight = <<maxHeight.v>>
                /\ (~maxHeight.nan /\ h <= maxHeight.v) =>
                     /\ req[r].shot = [kind |-> "fullPage", type |-> "jpeg"]
                     /\ ~req[r].heightTruncated
                     /\ req[r].capturedHeight = <<h>>

\* C5 witness: a truncated capture of a page wider than the viewport, next to
\* a request whose page is exactly as high as the maximum
C5_Witness ==
    /\ \E r \in Req : /\ req[r].pc = "pageClose"
                      /\ req[r].heightTruncated
                      /\ req[r].scroll.width > ViewportWidth
    /\ \E r \in Req : /\ req[r].pc = "pageClose"
                      /\ ~maxHeight.nan
                      /\ req[r].scroll.height = maxHeight.v

SuccessResponses(r) ==
    {req[r].responses[i] : i \in {j \in DOMAIN req[r].responses :
                                     req[r].responses[j].status = 200}}

HeightHeaders == {"X-Actual-Page-Height", "X-Captured-Height"}

\* C6: a success response carries the JPEG, Content-Type image/jpeg and the
\* truncation flag; the two height headers are there exactly when the capture
\* was truncated, and then hold the measured height and the maximum
C6_SuccessHeaders ==
    \A r \in Req : \A resp \in SuccessResponses(r) :
        LET hd == resp.headers
            h  == req[r].pageHeight[1]
            truncated == ~maxHeight.nan /\ h > maxHeight.v
        IN  /\ resp.body.kind = "jpeg"
            /\ "Content-Type" \in DOMAIN hd
            /\ hd["Content-Type"] = StrImageJpeg
            /\ "X-Screenshot-Height-Truncated" \in DOMAIN hd
            /\ hd["X-Screenshot-Height-Truncated"] =
                   (IF truncated THEN StrTrue ELSE StrFalse)
            /\ IF truncated
               THEN /\ HeightHeaders \subseteq DOMAIN hd
                    /\ hd["X-Actual-Page-Height"] = IntToString(h)
                    /\ hd["X-Captured-Height"] = IntToString(maxHeight.v)
               ELSE HeightHeaders \cap DOMAIN hd = {}

\* C6 witness: a truncated success response beside one that is not truncated
C6_Witness ==
    /\ \E r \in Req : \E resp \in SuccessResponses(r) :
          resp.headers["X-Screenshot-Height-Truncated"] = StrTrue
    /\ \E r \in Req : \E resp \in SuccessResponses(r) :
          resp.headers["X-Screenshot-Height-Truncated"] = StrFalse

\* A submitted mail that parses but has neither an html nor a text body
IsEmptyMail(rq) ==
    /\ rq.pc # "idle" /\ rq.payload = "given" /\ rq.email.ok
    /\ ~Truthy(rq.email.parsed.html) /\ ~Truthy(rq.email.parsed.text)

\* C7: a mail with neither body never acquires a page, gets no image, and
\* once processed has exactly one response, an error
C7_EmptyMailFails ==
    \A r \in Req :
        IsEmptyMail(req[r]) =>
            /\ req[r].pc \in {"parsing", "unlink", "done"}
            /\ req[r].page = "none"
            /\ \A i \in DOMAIN req[r].responses :
                   /\ req[r].responses[i].status = 400
                   /\ req[r].responses[i].body.kind = "error"
            /\ req[r].pc \in {"unlink", "done"} => Len(req[r].responses) = 1

\* C7 witness: with the browser launched, an empty mail was turned down by the
\* body check
C7_Witness ==
    \E r \in Req :
        /\ IsEmptyMail(req[r])
        /\ req[r].pc = "done"
        /\ session = "running"
        /\ req[r].responses =
              <<ErrorResponse("The provided content is not a valid .eml file.")>>

\* Whether text holds no raw < > " ' and every & in it starts one of the five
\* entities of escapeHtml
IsPrefixAt(text, i, ent) ==
    /\ i + Len(ent) - 1 <= Len(text)
    /\ SubSeq(text, i, i + Len(ent) - 1) = ent

IsEscaped(text) ==
    \A i \in 1..Len(text) :
        /\ text[i] \notin {60, 62, 34, 39}
        /\ text[i] = 38 =>
              \E ent \in {EntAmp, EntLt, EntGt, EntQuot, EntApos} :
                  IsPrefixAt(text, i, ent)

\* C8: every header-derived part of the generated document is HTML-escaped
C8_HeadersEscaped ==
    htmlPc = "done" =>
        \A i \in DOMAIN htmlDoc :
            htmlDoc[i].part # "content" => IsEscaped(htmlDoc[i].text)

\* C9: sanitizing a sanitized value changes nothing
C9_Idempotent == sanPc = "twice" => sanOut2 = sanOut

\* C10: the result has at most 255 + 3 characters, all printable ASCII, and is
\* empty for an absent input
C10_Bounded ==
    sanPc # "start" =>
        /\ Len(sanOut) <= MaxHeaderLen + 3
        /\ \A i \in 1..Len(sanOut) : sanOut[i] \in 32..126
        /\ ~sanIn.present => sanOut = <<>>

\* C10 witness: an input with a non-ASCII character, cut to 255 + 3 characters
C10_Witness ==
    /\ sanPc = "once"
    /\ sanIn.present
    /\ \E i \in 1..Len(sanIn.s) : sanIn.s[i] > 126
    /\ Len(sanOut) = MaxHeaderLen + 3

\* The awaits from the load of the document to the end of the capture
LoadPcs == {"setContent", "evaluate", "screenshot", "pageClose"}

\* C11: in offline mode the request gate is on the page before the document is
\* loaded, every request of the load is intercepted and resolved exactly once,
\* continued exactly when its URL is a data: URI, so that nothing else is
\* fetched; with offline mode off no page has interception on
C11_OfflineGate ==
    \A r \in Req :
        /\ req[r].pc \in LoadPcs => req[r].gate = offline
        /\ ~offline => ~req[r].gate
        /\ \A i \in DOMAIN req[r].fetches :
              LET f == req[r].fetches[i]
              IN  /\ f.intercepted = offline
                  /\ offline =>
                        /\ Len(f.resolutions) = 1
                        /\ f.resolutions[1] = "continue" <=>
                              StartsWith(f.url, StrDataScheme)
                        /\ f.fetched => StartsWith(f.url, StrDataScheme)
                  /\ ~offline => f.resolutions = <<>>

\* C11 witness: in offline mode, one page has had a remote request aborted and
\* its load and capture have completed all the same, while another is loading
\* with a data: request continued
C11_Witness ==
    /\ offline
    /\ \E r \in Req : req[r].pc = "pageClose" /\ req[r].blocked
    /\ \E r \in Req : /\ req[r].pc = "setContent"
                      /\ \E i \in DOMAIN req[r].fetches :
                            /\ req[r].fetches[i].url = UrlData
                            /\ req[r].fetches[i].fetched

\* The request leaves the load of its document without the load having
\* completed: setContent has rejected, by its 60 s timeout or otherwise
LoadFails(r) == req[r].pc = "setContent" /\ req'[r].pc \notin {"setContent", "evaluate"}

StrNavigationTimeout == "Navigation timeout of 60000 ms exceeded"

\* C12: when the load of one request's document fails, as it does when it
\* exceeds 60 s, that request gets an error response and processEmailContent
\* is over for it, and the step changes nothing of any other request nor of
\* the shared browser
C12_LoadFailureIsolated ==
    [][\A r \in Req :
          LoadFails(r) =>
              /\ req'[r].pc \in {"unlink", "done"}
              /\ Len(req'[r].responses) = Len(req[r].responses) + 1
              /\ req'[r].responses[Len(req'[r].responses)].status = 400
              /\ req'[r].responses[Len(req'[r].responses)].body.kind = "error"
              /\ \A q \in Req \ {r} : req'[q] = req[q]
              /\ browser' = browser /\ session' = session]_vars

\* C12 witness: one request has failed by the load timeout while the page of
\* another is open with its capture taken, on a browser that still runs
C12_Witness ==
    \E r \in Req, q \in Req :
        /\ r # q
        /\ req[r].responses = <<ErrorResponse(StrNavigationTimeout)>>
        /\ req[q].pc = "pageClose"
        /\ req[q].page = "open"
        /\ session = "running"

\* C13: no step of a request assigns, closes or otherwise changes the shared
\* browser: `browser` and the state of its session change only in the steps of
\* the launch and of the signal handler
C13_RequestsLeaveBrowserAlone ==
    [][req' # req =>
          /\ browser' = browser
          /\ session' = session
          /\ launch' = launch
          /\ launchCalls' = launchCalls
          /\ closeCalls' = closeCalls]_vars

\* C13 witness: after a request has failed on its page, the session is still
\* running and another request has obtained a page from it
C13_Witness ==
    \E r \in Req, q \in Req :
        /\ r # q
        /\ req[r].pc = "done"
        /\ req[r].page = "open"
        /\ Len(req[r].responses) = 1
        /\ req[r].responses[1].status = 400
        /\ session = "running"
        /\ req[q].pc = "setViewport"
        /\ req[q].page = "open"

\* The messages of the failures that are the submitted input's
InputErrors ==
    {"No file uploaded.", "No .eml content provided.",
     "Invalid base64-encoded content.", "simpleParser rejected",
     "The provided content is not a valid .eml file."}

IsInputFailure(resp) == resp.status # 200 /\ resp.body.message \in InputErrors

\* The messages of the failures of the load and of the capture
RenderingErrors == {StrNavigationTimeout, "setContent failed", "screenshot failed"}

IsRenderingFailure(resp) == resp.status # 200 /\ resp.body.message \in RenderingErrors

\* C14: a failure of the input is answered with a client-error status, and a
\* failure of the rendering with a status different from it
C14_DistinctStatuses ==
    \A r \in Req, q \in Req :
        \A i \in DOMAIN req[r].responses, j \in DOMAIN req[q].responses :
            /\ IsInputFailure(req[r].responses[i]) =>
                  req[r].responses[i].status \in 400..499
            /\ (IsInputFailure(req[r].responses[i])
                  /\ IsRenderingFailure(req[q].responses[j])) =>
                  req[q].responses[j].status # req[r].responses[i].status

\* C15: a request to /convert-api whose eml_content is no base64 is answered
\* with the error of the decoding, not that of the parser, and reaches neither
\* the parser nor a page
C15_UndecodableRejectedEarly ==
    \A r \in Req :
        (req[r].pc # "idle" /\ req[r].payload = "undecodable") =>
            /\ req[r].pc = "done"
            /\ req[r].page = "none"
            /\ req[r].responses =
                  <<ErrorResponse("Invalid base64-encoded content.")>>

\* A request to /convert whose handler has been given a file
CarriesFile(rq) ==
    rq.pc # "idle" /\ rq.endpoint = "convert" /\ rq.payload = "given"

\* C16: the uploaded file of a /convert request is there as long as the
\* request is being processed, the parsing included, and is deleted once the
\* request is done, whatever the outcome
C16_TempFileDeleted ==
    \A r \in Req :
        CarriesFile(req[r]) =>
            req[r].file = (IF req[r].pc = "done" THEN "deleted" ELSE "temp")

\* C16 witness: the file of a converted upload is deleted, and so is the file
\* of an upload whose rendering failed on its page
C16_Witness ==
    \E r \in Req, q \in Req :
        /\ CarriesFile(req[r]) /\ req[r].file = "deleted"
        /\ req[r].responses # <<>> /\ req[r].responses[1].status = 200
        /\ CarriesFile(req[q]) /\ req[q].file = "deleted"
        /\ req[q].responses # <<>> /\ req[q].responses[1].status = 400
        /\ req[q].page = "open"

\* The same byte stream submitted as the file of r and, encoded, as the
\* eml_content of q
SameSubmission(r, q) ==
    /\ req[r].pc # "idle" /\ req[q].pc # "idle"
    /\ req[r].endpoint = "convert" /\ req[q].endpoint = "convert-api"
    /\ req[r].sample # "none" /\ req[r].sample = req[q].sample

Completed(rq) == rq.pc \in {"unlink", "done"}

Succeeded(rq) == rq.responses # <<>> /\ rq.responses[1].status = 200

\* The two entry points treat the stream alike and hand the same mail to
\* processEmailContent; a mail that cannot be rendered gets the same response
\* from both, and so does one rendered to the same height by both
EquivalentResults(r, q) ==
    /\ req[r].payload = req[q].payload
    /\ req[r].email = req[q].email
    /\ (Completed(req[r]) /\ Completed(req[q])) =>
          /\ (~req[r].email.ok \/ ~IsRenderable(req[r].email.parsed)) =>
                req[r].responses = req[q].responses
          /\ (Succeeded(req[r]) /\ Succeeded(req[q])
                /\ req[r].pageHeight = req[q].pageHeight) =>
                req[r].responses = req[q].responses

\* The size of the byte stream of a sample
SampleSize(name) ==
    IF name = "large" THEN LargeMailBytes
    ELSE Len((CHOOSE m \in Samples : m.sample = name).bytes)

C18_DefaultsForMissingHeaders ==
    htmlPc = "done" =>
        /\ Len(htmlDoc) = 7
        /\ ~htmlIn.messageId.present => htmlDoc[1].text = StrUnknown
        /\ ~htmlIn.from.present =>
              /\ htmlDoc[2].text = StrUnknownSender
              /\ htmlDoc[3].text = StrUnknown
        /\ ~htmlIn.to.present =>
              /\ htmlDoc[4].text = StrUnknownRecipient
              /\ htmlDoc[5].text = StrUnknown
        /\ ~htmlIn.subject.present => htmlDoc[6].text = StrNoSubject

\* C18 witness: the document of a mail with a text body, a recipient and no
\* other header
C18_Witness ==
    /\ htmlPc = "done"
    /\ htmlIn.text.present
    /\ ~htmlIn.messageId.present /\ ~htmlIn.from.present /\ ~htmlIn.subject.present
    /\ htmlIn.to.present

\* C19: fewer pages are open at any time than there are concurrent requests:
\* a gate on page creation holds some bound below their number
C19_OpenPagesBounded ==
    Cardinality({r \in Req : req[r].pc \in PageOpPcs /\ req[r].page = "open"})
        < NumReq

\* A request that was handed to processEmailContent
ReachedPipeline(rq) ==
    /\ rq.pc # "idle"
    /\ rq.payload \notin {"missing", "nonString"}
    /\ ~(rq.payload = "oversize" /\ rq.endpoint = "convert")

\* C20: a process whose browser launch has failed has served no conversion
\* request
C20_NoServiceWithoutBrowser ==
    launch = "failed" => \A r \in Req : ~ReachedPipeline(req[r])

\* C21: a request with an operation pending on a page works on the page it
\* opened itself, and no two requests have the same page
C21_PagesExclusive ==
    \A r \in Req :
        /\ req[r].pc \in PageOpPcs => (req[r].pageId # 0 /\ req[r].page = "open")
        /\ \A q \in Req \ {r} : req[r].pageId # 0 => req[q].pageId # req[r].pageId

\* C21 witness: two requests have their captures pending at the same time,
\* each on its page
C21_Witness ==
    \E r \in Req, q \in Req :
        /\ r # q
        /\ req[r].pc = "screenshot" /\ req[q].pc = "screenshot"
        /\ req[r].pageId # 0 /\ req[q].pageId # 0

\* The controls of the reference: CR, LF and the rest of C0, DEL (counted with
\* them, as the source does), and C1
IsReferenceControl(c) == c \in 0..31 \/ c = 127 \/ c \in 128..159

\* Each maximal run of controls becomes one space
CollapseReferenceControls(str) ==
    LET ctl(i) == IsReferenceControl(str[i])
        kept == SelectSeq([i \in 1..Len(str) |->
                             [c |-> IF ctl(i) THEN 32 ELSE str[i],
                              drop |-> ctl(i) /\ i > 1 /\ ctl(i - 1)]],
                          LAMBDA m : ~m.drop)
    IN  [i \in 1..Len(kept) |-> kept[i].c]

\* The reference: controls collapsed, the result trimmed, what is not
\* printable ASCII removed, a result of more than 255 characters cut to its
\* first 255 followed by '...'; the empty string for an absent or empty input
ReferenceSanitize(value) ==
    IF ~value.present THEN <<>>
    ELSE LET stripped ==
                 SelectSeq(Trim(CollapseReferenceControls(value.s)),
                           LAMBDA c : c \in 32..126)
         IN  IF Len(stripped) > 255
             THEN SubSeq(stripped, 1, 255) \o <<46, 46, 46>>
             ELSE stripped

\* C22: sanitizeHeaderValue gives what the reference gives
C22_EqualsReference ==
    sanPc # "start" => sanOut = ReferenceSanitize(sanIn)

\* The steps of a conversion in their order
StepOrder ==
    {<<"idle", "parsing">>, <<"parsing", "newPage">>, <<"newPage", "setViewport">>,
     <<"setViewport", IF offline THEN "setRequestInterception" ELSE "setContent">>,
     <<"setRequestInterception", "setContent">>, <<"setContent", "evaluate">>,
     <<"evaluate", "screenshot">>, <<"screenshot", "pageClose">>}

\* The last response of a request
LastResponse(rq) == rq.responses[Len(rq.responses)]

\* C23: a request moves from each step to the next one of the order only
\* (page opened, viewport 1024 x 0, the gate in offline mode only, the load
\* waiting for 'load' in offline mode and for network idle otherwise under a
\* timeout of 60 s, dimensions, screenshot, page closed), or it ends with a
\* response; the JPEG is sent only from the closing of the page, with the page
\* closed; a load that fails, as by its timeout, has taken no screenshot and
\* ends the request with an error
C23_StepsInOrder ==
    [][\A r \in Req :
          LET a == req[r].pc
              b == req'[r].pc
          IN  /\ a # b =>
                   \/ <<a, b>> \in StepOrder
                   \/ /\ b \in {"unlink", "done"}
                      /\ Len(req'[r].responses) = Len(req[r].responses) + 1
                      /\ LastResponse(req'[r]).status = 200 =>
                            (a = "pageClose" /\ req'[r].page = "closed")
                   \/ a = "unlink" /\ b = "done" /\ req'[r].responses = req[r].responses
              /\ b = "setViewport" =>
                   PendingCall(req'[r], offline) =
                       [op |-> "setViewport", width |-> 1024, height |-> 0]
              /\ b = "setContent" =>
                   /\ req'[r].gate = offline
                   /\ PendingCall(req'[r], offline) =
                         [op |-> "setContent",
                          waitUntil |-> IF offline THEN "load" ELSE "networkidle0",
                          timeout |-> 60000]
              /\ (a = "setContent" /\ b \notin {"setContent", "evaluate"}) =>
                   /\ req[r].shot = NoShot
                   /\ LastResponse(req'[r]).status # 200]_vars

\* C23 witness: in offline mode, one request has gone through every step to
\* its JPEG and another has ended on the timeout of its load
C23_Witness ==
    /\ offline
    /\ \E r \in Req : /\ req[r].pc = "done" /\ Succeeded(req[r])
                      /\ req[r].page = "closed"
    /\ \E q \in Req : /\ req[q].pc = "done"
                      /\ req[q].responses = <<ErrorResponse(StrNavigationTimeout)>>

\* C24: a request has never more than one response, and has exactly one, the
\* JPEG or an error, once its handler is through with it
C24_ExactlyOneResponse ==
    \A r \in Req :
        /\ Len(req[r].responses) <= 1
        /\ req[r].pc \in {"unlink", "done"} =>
              /\ Len(req[r].responses) = 1
              /\ req[r].responses[1].status \in {200, 400, 500}
              /\ req[r].responses[1].status = 200 <=>
                    req[r].responses[1].body.kind = "jpeg"

\* C24 witness: a request that came before the browser was launched has its
\* one error, and a later one its JPEG
C24_Witness ==
    \E r \in Req, q \in Req :
        /\ req[r].pc = "done"
        /\ req[r].responses = <<ErrorResponse("TypeError: browser is undefined")>>
        /\ req[q].pc = "done"
        /\ Succeeded(req[q])
        /\ Len(req[q].responses) = 1

\* Whether a request has come to its end: the one response is sent and the
\* route handler has returned
Terminal(rq) == rq.pc = "done" /\ Len(rq.responses) = 1

\* C25: as long as the process is not ended, no request stays for ever between
\* its arrival and its end with one response, and none stays for ever at the
\* load of its document
C25_EveryRequestTerminates ==
    \A r \in Req :
        /\ []<>(req[r].pc = "idle" \/ Terminal(req[r]) \/ proc = "exited")
        /\ []<>(req[r].pc # "setContent" \/ proc = "exited")

\* C25 witness: with the process running, a request has reached its error by
\* the timeout of its load
C25_Witness ==
    \E r \in Req :
        /\ proc = "running"
        /\ req[r].pc = "done"
        /\ req[r].file = "deleted"
        /\ req[r].responses = <<ErrorResponse(StrNavigationTimeout)>>

\* C26: the maximum height that the truncation decision compares the measured
\* height with is a positive integer, whatever MAX_SCREENSHOT_HEIGHT is set to
C26_MaxHeightPositive ==
    \A r \in Req :
        req[r].pc = "screenshot" => (~maxHeight.nan /\ maxHeight.v > 0)

====
